---- MODULE Spec2Model ----
(***************************************************************************)
(* A model of formatrus (src/formatter.go, the richer variant, lines       *)
(* 1-364): the logrus Formatter whose Format method renders one log entry  *)
(* into bytes.  Strings are sequences of one-character strings, so that    *)
(* slicing, case folding, concatenation and comparison are computed.       *)
(***************************************************************************)
EXTENDS Integers, Sequences, FiniteSets, TLC

VARIABLES f, pc, ent, ret, gateRuns, prev

vars == <<f, pc, ent, ret, gateRuns, prev>>

(***************************************************************************)
(* Bounds of the model.                                                    *)
(***************************************************************************)
MaxThreads == 2      \* goroutines calling Format concurrently
MaxFields == 3       \* fields of one entry in the sorting specifications

(***************************************************************************)
(* Strings.                                                                *)
(***************************************************************************)
LowerAlpha ==
  <<"a","b","c","d","e","f","g","h","i","j","k","l","m",
    "n","o","p","q","r","s","t","u","v","w","x","y","z">>

UpperAlpha ==
  <<"A","B","C","D","E","F","G","H","I","J","K","L","M",
    "N","O","P","Q","R","S","T","U","V","W","X","Y","Z">>

\* The characters the model uses, in ascending byte order.
AsciiOrder ==
  <<"\n", " ", "\"", "(", ")", ",", ".", "/", "0", "1", "2", "3", "4", "5",
    "6", "7", "8", "9", ":", "=", "@">> \o UpperAlpha \o <<"[", "]", "_">>
  \o LowerAlpha \o <<"{", "}">>

Ord(c) == CHOOSE i \in 1..Len(AsciiOrder) : AsciiOrder[i] = c

UpperChar(c) ==
  IF \E i \in 1..26 : LowerAlpha[i] = c
  THEN UpperAlpha[CHOOSE i \in 1..26 : LowerAlpha[i] = c]
  ELSE c

LowerChar(c) ==
  IF \E i \in 1..26 : UpperAlpha[i] = c
  THEN LowerAlpha[CHOOSE i \in 1..26 : UpperAlpha[i] = c]
  ELSE c

ToUpper(s) == [i \in 1..Len(s) |-> UpperChar(s[i])]

ToLower(s) == [i \in 1..Len(s) |-> LowerChar(s[i])]

Repeat(c, n) == [i \in 1..n |-> c]

RECURSIVE Compare(_, _)
\* strings.Compare: -1, 0 or 1 by bytewise lexicographic order.
Compare(a, b) ==
  IF a = <<>> /\ b = <<>> THEN 0
  ELSE IF a = <<>> THEN -1
  ELSE IF b = <<>> THEN 1
  ELSE IF Ord(Head(a)) < Ord(Head(b)) THEN -1
  ELSE IF Ord(Head(a)) > Ord(Head(b)) THEN 1
  ELSE Compare(Tail(a), Tail(b))

(***************************************************************************)
(* Field names.  A name is a TLA+ string; Chars gives its bytes.           *)
(***************************************************************************)
LongName == "transaction_reference_id"

Chars(name) ==
  CASE name = "user" -> <<"u","s","e","r">>
    [] name = "prefix" -> <<"p","r","e","f","i","x">>
    [] name = "rpc" -> <<"r","p","c">>
    [] name = "_order" -> <<"_","o","r","d","e","r">>
    [] name = "a" -> <<"a">>
    [] name = "b" -> <<"b">>
    [] name = "c" -> <<"c">>
    [] name = "m" -> <<"m">>
    [] name = "z" -> <<"z">>
    [] name = "latency" -> <<"l","a","t","e","n","c","y">>
    [] name = LongName ->
         <<"t","r","a","n","s","a","c","t","i","o","n","_",
           "r","e","f","e","r","e","n","c","e","_","i","d">>

(***************************************************************************)
(* Colour functions (lines 20-37).  One element stands for one escape      *)
(* sequence.                                                               *)
(***************************************************************************)
Reset == "<reset>"

ColourCodes ==
  {"<green>", "<yellow>", "<red>", "<blue>", "<cyan>", "<magenta>",
   "<magenta+h>", "<black+h>", "<json>", Reset}

ColorFunc(code, s) == IF s = <<>> THEN s ELSE <<code>> \o s \o <<Reset>>

noColour(s) == s

braketise(s) == <<"[">> \o s \o <<"]">>

\* Apply the colour function selected by name.
Apply(fn, s) ==
  CASE fn = "noColour" -> noColour(s)
    [] fn = "braketise" -> braketise(s)
    [] OTHER -> ColorFunc(fn, s)

IsColour(c) == c \in ColourCodes

StripColour(s) == SelectSeq(s, LAMBDA c : ~IsColour(c))

(***************************************************************************)
(* Values of entry.Data: kind is the dynamic Go type, s the text of a      *)
(* string, the digits of an int or the Error()/String() text, l the        *)
(* elements of a []string.                                                 *)
(***************************************************************************)
Val(kind, s, l) == [kind |-> kind, s |-> s, l |-> l]

StrVal(s) == Val("string", s, <<>>)

IntVal(s) == Val("int", s, <<>>)

HintVal(l) == Val("strings", <<>>, l)

Quote(s) == <<"\"">> \o s \o <<"\"">>

RECURSIVE JoinQuoted(_)
JoinQuoted(l) ==
  IF l = <<>> THEN <<>>
  ELSE Quote(Chars(Head(l)))
       \o (IF Len(l) > 1 THEN <<",">> ELSE <<>>) \o JoinQuoted(Tail(l))

MapJSON == <<"{", "\"", "k", "\"", ":", "1", "}">>

MapPretty ==
  <<"{", "\n", " ">> \o ColorFunc("<json>", <<"\"", "k", "\"">>)
  \o <<":", " ">> \o ColorFunc("<json>", <<"1">>) \o <<"\n", "}">>

\* json.Marshal(depict.Portray(value)), line 311.
Marshal(v) ==
  CASE v.kind = "string" -> [err |-> FALSE, data |-> Quote(v.s)]
    [] v.kind = "int" -> [err |-> FALSE, data |-> v.s]
    [] v.kind = "strings" ->
         [err |-> FALSE, data |-> <<"[">> \o JoinQuoted(v.l) \o <<"]">>]
    [] v.kind = "map" -> [err |-> FALSE, data |-> MapJSON]
    [] v.kind \in {"error", "stringer"} -> [err |-> FALSE, data |-> <<"{", "}">>]
    [] v.kind = "func" -> [err |-> TRUE, data |-> <<>>]

\* f.jsonFmt.Format(data), line 328: indentation of one space, coloured.
PrettyFormat(data) ==
  IF data = MapJSON THEN MapPretty
  ELSE IF data = <<"{", "}">> THEN data
  ELSE ColorFunc("<json>", data)

\* fmt.Sprintf("%#v", data) of the nil byte slice a failed Marshal returns.
SprintfSharpV ==
  <<"[", "]", "b", "y", "t", "e", "(", "n", "i", "l", ")">>

IsSpace(c) == c \in {" ", "\n"}

RECURSIVE RunEnd(_, _)
\* Index just after the run of white space that starts at i.
RunEnd(data, i) ==
  IF i <= Len(data) /\ IsSpace(data[i]) THEN RunEnd(data, i + 1) ELSE i

RECURSIVE LastNewline(_, _, _)
\* Largest index in lo..hi-1 that holds a newline, 0 if none.
LastNewline(data, lo, hi) ==
  IF hi <= lo THEN 0
  ELSE IF data[hi - 1] = "\n" THEN hi - 1
  ELSE LastNewline(data, lo, hi - 1)

RECURSIVE ReCompact(_, _)
\* reCompact.ReplaceAll(data, bSpace) with reCompact = \s*\n\s*, line 343.
ReCompact(data, i) ==
  IF i > Len(data) THEN <<>>
  ELSE IF IsSpace(data[i]) /\ LastNewline(data, i, RunEnd(data, i)) # 0
       THEN <<" ">> \o ReCompact(data, RunEnd(data, i))
  ELSE <<data[i]>> \o ReCompact(data, i + 1)

RECURSIVE ReplaceNewline(_, _)
\* bytes.Replace(data, bNewline, padding, -1), line 345.
ReplaceNewline(data, padding) ==
  IF data = <<>> THEN <<>>
  ELSE (IF Head(data) = "\n" THEN padding ELSE <<Head(data)>>)
       \o ReplaceNewline(Tail(data), padding)

\* One iteration of the loop of lines 308-351: the bytes written for key.
\* bytes.Repeat panics on a negative count (a key longer than keySize), and
\* f.jsonFmt.Format needs the pretty-printer the gate constructs.
RenderField(fm, key, value, keySize, dataColour) ==
  LET m0 == Marshal(value)
      rescue == ~m0.err /\ Len(m0.data) = 2 /\ m0.data[1] = "{"
                /\ value.kind \in {"error", "stringer"} /\ Len(value.s) > 0
      data1 == IF rescue THEN Quote(value.s) ELSE m0.data
      usePretty == ~m0.err /\ fm.isTerminal
      data2 == IF usePretty THEN PrettyFormat(data1) ELSE data1
      data == IF m0.err THEN SprintfSharpV ELSE data2
      padding == <<"\n">> \o Repeat(" ", keySize + 4)
      l == keySize - Len(Chars(key))
  IN IF usePretty /\ fm.jsonFmt # "ready"
     THEN [panicked |-> TRUE, bytes |-> <<>>]
     ELSE IF fm.isTerminal
     THEN IF l < 0
          THEN [panicked |-> TRUE, bytes |-> <<>>]
          ELSE [panicked |-> FALSE,
                bytes |->
                  <<"\n", " ", " ">> \o Apply(dataColour, Chars(key))
                  \o <<":", " ">> \o Repeat(" ", l)
                  \o (IF fm.CompactFull
                         \/ (fm.CompactSimple /\ Len(data) < 100)
                      THEN ReCompact(data, 1)
                      ELSE ReplaceNewline(data, padding))]
     ELSE [panicked |-> FALSE,
           bytes |-> <<" ", " ">> \o Chars(key) \o <<"=">> \o data]

RECURSIVE RenderFields(_, _, _, _, _)
\* The loop of lines 308-351 over the sorted keys.
RenderFields(fm, keys, data, keySize, dataColour) ==
  IF keys = <<>> THEN [panicked |-> FALSE, bytes |-> <<>>]
  ELSE LET r == RenderField(fm, Head(keys), data[Head(keys)], keySize,
                            dataColour)
           rest == RenderFields(fm, Tail(keys), data, keySize, dataColour)
       IN IF r.panicked THEN r
          ELSE [panicked |-> rest.panicked, bytes |-> r.bytes \o rest.bytes]

(***************************************************************************)
(* Level classifier, lines 153-182 and 202-219.                            *)
(***************************************************************************)
Levels == {"Panic", "Fatal", "Error", "Warn", "Info", "Debug", "Trace"}

levelText3(level) ==
  CASE level = "Info" -> <<"I", "n", "f">>
    [] level = "Warn" -> <<"W", "r", "n">>
    [] level = "Error" -> <<"E", "r", "r">>
    [] level = "Fatal" -> <<"F", "t", "l">>
    [] level = "Panic" -> <<"P", "n", "c">>
    [] OTHER -> <<"D", "b", "g">>

levelText5(level) ==
  CASE level = "Info" -> <<"I", "n", "f", "o", " ">>
    [] level = "Warn" -> <<"W", "a", "r", "n", " ">>
    [] level = "Error" -> <<"E", "r", "r", "o", "r">>
    [] level = "Fatal" -> <<"F", "a", "t", "a", "l">>
    [] level = "Panic" -> <<"P", "a", "n", "i", "c">>
    [] OTHER -> <<"D", "e", "b", "u", "g">>

levelColour(level) ==
  CASE level = "Info" -> "<green>"
    [] level = "Warn" -> "<yellow>"
    [] level = "Error" -> "<red>"
    [] level = "Fatal" -> "<red>"
    [] level = "Panic" -> "<red>"
    [] OTHER -> "<blue>"

\* Lines 202-204: the value of f.LevelLetters after the reset.
ResetLevelLetters(n) == IF n <= 0 THEN 3 ELSE n

\* Lines 206-212: the slice of the 3- or 5-letter form.
SliceLevel(level, n) ==
  IF n >= 5 THEN levelText5(level)
  ELSE IF n > 3 THEN SubSeq(levelText5(level), 1, n)
  ELSE SubSeq(levelText3(level), 1, n)

\* Lines 214-219: both flags call strings.ToUpper.
FoldLevel(fm, text) ==
  LET t1 == IF fm.LevelUpper THEN ToUpper(text) ELSE text
  IN IF fm.LevelLower THEN ToUpper(t1) ELSE t1

levelText(fm, level) ==
  FoldLevel(fm, SliceLevel(level, ResetLevelLetters(fm.LevelLetters)))

(***************************************************************************)
(* Prefix composer, lines 221-248.                                         *)
(***************************************************************************)
Has(data, key) == key \in DOMAIN data

IsString(data, key) == Has(data, key) /\ data[key].kind = "string"

\* Lines 224-228.
UserPart(data, userColour) ==
  IF IsString(data, "user")
  THEN Apply(userColour, data["user"].s \o <<"@">>)
  ELSE <<>>

\* Lines 229-244.
OriginPart(data, prefixColour) ==
  LET p1 == IF IsString(data, "rpc") THEN data["rpc"].s ELSE <<>>
      p2 == IF IsString(data, "prefix")
            THEN (IF p1 # <<>> THEN data["prefix"].s \o <<"/">>
                  ELSE data["prefix"].s) \o p1
            ELSE p1
  IN IF p2 # <<>> THEN Apply(prefixColour, p2 \o <<":">>) ELSE p2

\* Lines 245-248.
Prefix(data, userColour, prefixColour) ==
  LET p == UserPart(data, userColour) \o OriginPart(data, prefixColour)
  IN IF p # <<>> THEN p \o <<" ">> ELSE p

(***************************************************************************)
(* Field sorter, lines 39-77 and 277-294.  A Go map is a record holding    *)
(* whether it is nil and its contents; reading an absent key gives 0.      *)
(***************************************************************************)
NilMap == [isNil |-> TRUE, m |-> [k \in {} |-> 0]]

EmptyMap == [isNil |-> FALSE, m |-> [k \in {} |-> 0]]

Lookup(mp, k) == IF k \in DOMAIN mp.m THEN mp.m[k] ELSE 0

MapSet(mp, k, v) ==
  [isNil |-> FALSE,
   m |-> [x \in DOMAIN mp.m \cup {k} |-> IF x = k THEN v ELSE mp.m[x]]]

\* A Less that compares the priorities the other way round.
LessAscendingPriority(s, i, j) ==
  LET a == s.keys[i]
      b == s.keys[j]
      ai == Lookup(s.order, a)
      bi == Lookup(s.order, b)
  IN IF ~s.order.isNil /\ ai # bi THEN ai < bi
     ELSE Compare(Chars(a), Chars(b)) < 1

\* A Less that leaves names of equal priority and hint index unordered.
LessWithoutNames(s, i, j) ==
  LET a == s.keys[i]
      b == s.keys[j]
      ai == Lookup(s.order, a)
      bi == Lookup(s.order, b)
      ap == Lookup(s.pri, a)
      bp == Lookup(s.pri, b)
  IN IF ~s.order.isNil /\ ai # bi THEN ai > bi
     ELSE IF ~s.pri.isNil /\ ap # bp THEN ap < bp
     ELSE TRUE

\* sorter.Less, lines 53-77: order holds the priorities (Formatter.Ordering),
\* pri the index of each name in the order hint.
Less(s, i, j) ==
  LET a == s.keys[i]
      b == s.keys[j]
      ai == Lookup(s.order, a)
      bi == Lookup(s.order, b)
      ap == Lookup(s.pri, a)
      bp == Lookup(s.pri, b)
  IN IF ~s.order.isNil /\ ai < bi THEN FALSE
     ELSE IF ~s.order.isNil /\ ai > bi THEN TRUE
     ELSE IF ~s.pri.isNil /\ ap > bp THEN FALSE
     ELSE IF ~s.pri.isNil /\ ap < bp THEN TRUE
     ELSE Compare(Chars(a), Chars(b)) < 1

\* sort.StringSlice.Less, used by sort.Strings (line 278).
StringLess(s, i, j) == Compare(Chars(s.keys[i]), Chars(s.keys[j])) < 0

LessOf(s, i, j) == IF s.strings THEN StringLess(s, i, j) ELSE Less(s, i, j)

\* sorter.Swap, lines 49-51.
Swap(s, i, j) ==
  [s EXCEPT !.keys = [s.keys EXCEPT ![i] = s.keys[j], ![j] = s.keys[i]]]

RECURSIVE Sink(_, _)
\* Inner loop of the insertion sort sort.Sort runs on up to 12 elements:
\* for j := i; j > a && Less(j, j-1); j-- { Swap(j, j-1) }.
Sink(s, j) ==
  IF j > 1 /\ LessOf(s, j, j - 1) THEN Sink(Swap(s, j, j - 1), j - 1) ELSE s

RECURSIVE InsertionSort(_, _)
InsertionSort(s, i) ==
  IF i > Len(s.keys) THEN s ELSE InsertionSort(Sink(s, i), i + 1)

RECURSIVE PriOf(_, _, _)
\* Lines 283-285: pri[k] = i for i, k := range orders (indices from 0).
PriOf(orders, i, mp) ==
  IF i > Len(orders) THEN mp
  ELSE PriOf(orders, i + 1, MapSet(mp, orders[i], i - 1))

\* Lines 277-294.
SortKeys(ordering, orders, keys) ==
  IF ordering.isNil /\ Len(orders) = 0
  THEN InsertionSort([strings |-> TRUE, order |-> NilMap, pri |-> NilMap,
                      keys |-> keys], 2).keys
  ELSE InsertionSort([strings |-> FALSE, order |-> ordering,
                      pri |-> IF Len(orders) > 0
                              THEN PriOf(orders, 1, EmptyMap) ELSE NilMap,
                      keys |-> keys], 2).keys

IsReserved(key) == key \in {"prefix", "rpc", "user"}

RECURSIVE KeysLoop(_, _, _, _)
\* Lines 259-275: range over entry.Data in the iteration order perm.
KeysLoop(data, perm, prefix, acc) ==
  IF perm = <<>> \/ acc.panicked THEN acc
  ELSE LET key == Head(perm)
           v == data[key]
           n == Len(Chars(key))
       IN IF key = "_order"
          THEN IF v.kind = "strings"
               THEN KeysLoop(data, Tail(perm), prefix,
                             [acc EXCEPT !.orders = v.l])
               ELSE [acc EXCEPT !.panicked = TRUE]
          ELSE IF IsReserved(key) /\ prefix # <<>>
          THEN KeysLoop(data, Tail(perm), prefix, acc)
          ELSE KeysLoop(data, Tail(perm), prefix,
                        [acc EXCEPT !.keys = Append(acc.keys, key),
                                    !.keySize = IF n > acc.keySize THEN n
                                                ELSE acc.keySize])

(***************************************************************************)
(* Formatter.Format after the gate, lines 153-364.                         *)
(***************************************************************************)
TimeFormat(t) ==
  IF t = "t1"
  THEN <<"J", "a", "n", " ", "0", "2", " ", "1", "5", ":", "0", "4", ":", "0", "5", ".", "0", "0", "0">>
  ELSE <<"N", "o", "v", " ", "0", "4", " ", "0", "9", ":", "3", "0", ":", "0", "0", ".", "2", "5", "0">>

\* Lines 300-305.
Cuddle(fm, keys, message) ==
  ~fm.MessageAfter
  \/ (fm.CompactMessage /\ Len(keys) = 0 /\ Len(message) < 100)

\* Lines 250-257 and 303-305: the header line written before the fields.
Header(timeText, levelPart, prefix, cuddleMessage, message) ==
  timeText \o <<" ">> \o levelPart
  \o (IF prefix # <<>> THEN <<" ">> \o prefix ELSE <<>>)
  \o (IF cuddleMessage THEN message ELSE <<>>)

\* Lines 352-361.
Trailer(fm, cuddleMessage, message) ==
  <<"\n">>
  \o (IF ~cuddleMessage
      THEN <<" ", " ">> \o message \o <<"\n">>
           \o (IF fm.ParagraphAll \/ fm.ParagraphBlock THEN <<"\n">> ELSE <<>>)
      ELSE IF fm.ParagraphAll THEN <<"\n">> ELSE <<>>)

FormatBody(fm, entry, perm) ==
  LET term == fm.isTerminal
      lColour == IF term THEN levelColour(entry.Level) ELSE "noColour"
      dataColour == IF term THEN "<cyan>" ELSE "noColour"
      prefixColour == IF term THEN "<magenta>" ELSE "noColour"
      userColour == IF term THEN "<magenta+h>" ELSE "noColour"
      timeColour == IF term THEN "<black+h>" ELSE "braketise"
      b0 == IF entry.Buffer.isNil THEN <<>> ELSE entry.Buffer.bytes
      fm1 == [fm EXCEPT !.LevelLetters = ResetLevelLetters(fm.LevelLetters)]
      lt == levelText(fm1, entry.Level)
      prefix == Prefix(entry.Data, userColour, prefixColour)
      kl == KeysLoop(entry.Data, perm, prefix,
                     [orders |-> <<>>, keys |-> <<>>, keySize |-> 5,
                      panicked |-> FALSE])
      keys == SortKeys(fm1.Ordering, kl.orders, kl.keys)
      keySize == IF kl.keySize > 20 THEN 20 ELSE kl.keySize
      cuddleMessage == Cuddle(fm1, keys, entry.Message)
      header == Header(Apply(timeColour, TimeFormat(entry.Time)),
                       Apply(lColour, lt), prefix, cuddleMessage,
                       entry.Message)
      fields == RenderFields(fm1, keys, entry.Data, keySize, dataColour)
      panicked == kl.panicked \/ fields.panicked
  IN [f |-> fm1,
      panicked |-> panicked,
      levelText |-> lt,
      prefix |-> prefix,
      keys |-> IF kl.panicked THEN <<>> ELSE keys,
      cuddleMessage |-> ~kl.panicked /\ cuddleMessage,
      out |-> IF panicked THEN <<>>
              ELSE b0 \o header \o fields.bytes
                   \o Trailer(fm1, cuddleMessage, entry.Message)]

(***************************************************************************)
(* The state machine.  f is the Formatter (configuration, isTerminal,      *)
(* jsonFmt and the embedded sync.Once: done and the mutex holder mu);      *)
(* each goroutine t is at pc[t] in a Format call on entry ent[t] and       *)
(* leaves what it computed in ret[t].  gateRuns counts executions of the   *)
(* function passed to f.Do; prev remembers one finished call.              *)
(***************************************************************************)
Messages ==
  {<<>>, <<"r", "e", "a", "d", "y">>, Repeat("x", 100)}

Entry(time, level, message, data, buffer, logger) ==
  [Time |-> time, Level |-> level, Message |-> message, Data |-> data,
   Buffer |-> buffer, Logger |-> logger]

NilBuffer == [isNil |-> TRUE, bytes |-> <<>>]

UsedBuffer == [isNil |-> FALSE, bytes |-> <<"#">>]

NoData == [k \in {} |-> Val("int", <<>>, <<>>)]

NoEntry == Entry("t1", "Info", <<>>, NoData, NilBuffer, "nil")

NoRet ==
  [panicked |-> FALSE, err |-> "nil", cfg0 |-> <<>>, perm |-> <<>>,
   levelText |-> <<>>,
   prefix |-> <<>>, keys |-> <<>>, cuddleMessage |-> FALSE, out |-> <<>>]

NoPrev ==
  [set |-> FALSE, entry |-> NoEntry, cfg0 |-> <<>>, perm |-> <<>>,
   out |-> <<>>]

\* The exported fields of Formatter, lines 82-101.
Config(fm) ==
  <<fm.LevelLetters, fm.LevelUpper, fm.LevelLower, fm.CompactFull,
    fm.CompactSimple, fm.MessageAfter, fm.CompactMessage, fm.ParagraphAll,
    fm.ParagraphBlock, fm.Ordering>>

\* New(), lines 113-121.
New ==
  [LevelLetters |-> 3, LevelUpper |-> TRUE, LevelLower |-> FALSE,
   CompactFull |-> FALSE, CompactSimple |-> TRUE, MessageAfter |-> TRUE,
   CompactMessage |-> TRUE, ParagraphAll |-> FALSE, ParagraphBlock |-> FALSE,
   Ordering |-> NilMap, isTerminal |-> FALSE, jsonFmt |-> "nil",
   done |-> FALSE, mu |-> 0]

\* The iteration orders a Go map with key set S can show.
Perms(S) ==
  {p \in [1..Cardinality(S) -> S] :
     \A i, j \in 1..Cardinality(S) : i # j => p[i] # p[j]}

Threads == DOMAIN pc

\* A goroutine enters Format with an entry from E (line 141).
Call(t, E) ==
  /\ pc[t] = "idle"
  /\ \E e \in E : ent' = [ent EXCEPT ![t] = e]
  /\ pc' = [pc EXCEPT ![t] = "do"]
  /\ UNCHANGED <<f, ret, gateRuns, prev>>

\* sync.Once.Do: the fast path reads done without the mutex.
DoFastAfter(fm) == IF fm.done THEN "body" ELSE "lock"

DoFast(t) ==
  /\ pc[t] = "do"
  /\ pc' = [pc EXCEPT ![t] = DoFastAfter(f)]
  /\ UNCHANGED <<f, ent, ret, gateRuns, prev>>

\* A doSlow that does not look at done again once it holds the mutex.
DoLockAfterNoRecheck(fm) == "probe"

\* sync.Once.doSlow: take the mutex, then look at done again.
DoLockAfter(fm) == IF fm.done THEN "unlock" ELSE "probe"

DoLockReady(fm) == fm.mu = 0

DoLock(t) ==
  /\ pc[t] = "lock"
  /\ DoLockReady(f)
  /\ f' = [f EXCEPT !.mu = t]
  /\ pc' = [pc EXCEPT ![t] = DoLockAfter(f)]
  /\ UNCHANGED <<ent, ret, gateRuns, prev>>

\* terminal.IsTerminal of the file a logger writes to.
IsTerminal(logger) == logger = "tty"

\* Lines 143-148: only an *os.File is probed.
Probe(fm, entry) ==
  IF entry.Logger \in {"tty", "file"}
  THEN [fm EXCEPT !.isTerminal = IsTerminal(entry.Logger)]
  ELSE fm

GateProbe(t) ==
  /\ pc[t] = "probe"
  /\ f' = Probe(f, ent[t])
  /\ gateRuns' = gateRuns + 1
  /\ pc' = [pc EXCEPT ![t] = "construct"]
  /\ UNCHANGED <<ent, ret, prev>>

\* Line 149: f.jsonFmt = prettyjson.NewFormatter().
GateConstruct(t) ==
  /\ pc[t] = "construct"
  /\ f' = [f EXCEPT !.jsonFmt = "new"]
  /\ pc' = [pc EXCEPT ![t] = "indent"]
  /\ UNCHANGED <<ent, ret, gateRuns, prev>>

\* Line 150: f.jsonFmt.Indent = 1.
GateIndent(t) ==
  /\ pc[t] = "indent"
  /\ f' = [f EXCEPT !.jsonFmt = "ready"]
  /\ pc' = [pc EXCEPT ![t] = "store"]
  /\ UNCHANGED <<ent, ret, gateRuns, prev>>

\* The deferred o.done.Store(1) of doSlow, after the function returned.
DoStore(t) ==
  /\ pc[t] = "store"
  /\ f' = [f EXCEPT !.done = TRUE]
  /\ pc' = [pc EXCEPT ![t] = "unlock"]
  /\ UNCHANGED <<ent, ret, gateRuns, prev>>

\* The deferred o.m.Unlock().
DoUnlock(t) ==
  /\ pc[t] = "unlock"
  /\ f' = [f EXCEPT !.mu = 0]
  /\ pc' = [pc EXCEPT ![t] = "body"]
  /\ UNCHANGED <<ent, ret, gateRuns, prev>>

\* Lines 153-364, with the map iteration order chosen by the runtime.
Render(t) ==
  /\ pc[t] = "body"
  /\ \E perm \in Perms(DOMAIN ent[t].Data) :
       LET r == FormatBody(f, ent[t], perm)
       IN /\ f' = r.f
          /\ ret' = [ret EXCEPT ![t] =
                       [panicked |-> r.panicked, err |-> "nil",
                        cfg0 |-> Config(f), perm |-> perm,
                        levelText |-> r.levelText,
                        prefix |-> r.prefix, keys |-> r.keys,
                        cuddleMessage |-> r.cuddleMessage, out |-> r.out]]
          /\ pc' = [pc EXCEPT ![t] = IF r.panicked THEN "panicked"
                                     ELSE "done"]
  /\ UNCHANGED <<ent, gateRuns, prev>>

\* The caller takes the bytes; the goroutine may log again.
Return(t) ==
  /\ pc[t] = "done"
  /\ pc' = [pc EXCEPT ![t] = "idle"]
  /\ ent' = [ent EXCEPT ![t] = NoEntry]
  /\ ret' = [ret EXCEPT ![t] = NoRet]
  /\ UNCHANGED <<f, gateRuns, prev>>

\* As Return, and the call is remembered for comparison with a later one.
ReturnRemember(t) ==
  /\ pc[t] = "done"
  /\ prev' = [set |-> TRUE, entry |-> ent[t], cfg0 |-> ret[t].cfg0,
              perm |-> ret[t].perm, out |-> ret[t].out]
  /\ pc' = [pc EXCEPT ![t] = "idle"]
  /\ ent' = [ent EXCEPT ![t] = NoEntry]
  /\ ret' = [ret EXCEPT ![t] = NoRet]
  /\ UNCHANGED <<f, gateRuns>>

\* Formatter.Order, lines 128-138, for one key.
OrderSet(fm, priority, key) ==
  [fm EXCEPT !.Ordering = MapSet(fm.Ordering, key, priority)]

\* Order is called while no Format call is running: the map is not
\* synchronised, and the caller is to configure before logging.
Order(priority, key) ==
  /\ \A t \in Threads : pc[t] = "idle"
  /\ f' = OrderSet(f, priority, key)
  /\ UNCHANGED <<pc, ent, ret, gateRuns, prev>>

InitWith(fm, n) ==
  /\ f = fm
  /\ pc = [t \in 1..n |-> "idle"]
  /\ ent = [t \in 1..n |-> NoEntry]
  /\ ret = [t \in 1..n |-> NoRet]
  /\ gateRuns = 0
  /\ prev = NoPrev

(***************************************************************************)
(* Concurrent first use: MaxThreads goroutines, loggers of every kind.     *)
(***************************************************************************)
EntriesOnce ==
  {Entry("t1", "Info", <<"r", "e", "a", "d", "y">>, d, NilBuffer, lg) :
     d \in {NoData, [k \in {"a"} |-> IntVal(<<"1">>)]},
     lg \in {"nil", "buffer", "file", "tty"}}

InitOnce ==
  \E n \in {0, 3} : InitWith([New EXCEPT !.LevelLetters = n], MaxThreads)

NextOnce ==
  \/ \E t \in Threads : Call(t, EntriesOnce)
  \/ \E t \in Threads : DoFast(t)
  \/ \E t \in Threads : DoLock(t)
  \/ \E t \in Threads : GateProbe(t)
  \/ \E t \in Threads : GateConstruct(t)
  \/ \E t \in Threads : GateIndent(t)
  \/ \E t \in Threads : DoStore(t)
  \/ \E t \in Threads : DoUnlock(t)
  \/ \E t \in Threads : Render(t)
  \/ \E t \in Threads : Return(t)

SpecOnce == InitOnce /\ [][NextOnce]_vars

\* C1: across concurrent first calls the function passed to f.Do runs
\* exactly once, and no call is past f.Do (where isTerminal and jsonFmt are
\* read) before that one run has completed.
GateOnce ==
  /\ gateRuns <= 1
  /\ \A t \in Threads :
       pc[t] \in {"body", "done", "panicked"} =>
         /\ gateRuns = 1
         /\ f.done
         /\ f.jsonFmt = "ready"
         /\ \A u \in Threads :
              pc[u] \notin {"probe", "construct", "indent", "store"}

GateOnceWitness ==
  \E t, u \in Threads :
    /\ t # u
    /\ pc[t] = "done"
    /\ pc[u] = "done"
    /\ gateRuns = 1
    /\ f.isTerminal

(***************************************************************************)
(* Level abbreviation: one goroutine, every LevelLetters around the range  *)
(* 1..5, every combination of the case flags, every level.                 *)
(***************************************************************************)
LevelLettersRange == -1..6

EntriesLevel ==
  {Entry("t1", lv, <<"r", "e", "a", "d", "y">>, NoData, NilBuffer, lg) :
     lv \in Levels, lg \in {"nil", "tty"}}

InitLevel ==
  \E n \in LevelLettersRange, up \in BOOLEAN, lo \in BOOLEAN :
    InitWith([New EXCEPT !.LevelLetters = n, !.LevelUpper = up,
                         !.LevelLower = lo], 1)

\* The steps of a Format call after its entry has been chosen.
Steps ==
  \/ \E t \in Threads : DoFast(t)
  \/ \E t \in Threads : DoLock(t)
  \/ \E t \in Threads : GateProbe(t)
  \/ \E t \in Threads : GateConstruct(t)
  \/ \E t \in Threads : GateIndent(t)
  \/ \E t \in Threads : DoStore(t)
  \/ \E t \in Threads : DoUnlock(t)
  \/ \E t \in Threads : Render(t)
  \/ \E t \in Threads : Return(t)

NextLevel ==
  \/ \E t \in Threads : Call(t, EntriesLevel)
  \/ Steps

SpecLevel == InitLevel /\ [][NextLevel]_vars

\* The abbreviation the level classifier is specified to display.
EffectiveWidth(n) == IF n <= 0 THEN 3 ELSE IF n > 5 THEN 5 ELSE n

SpecifiedLevelText(letters, upper, lower, level) ==
  LET n == EffectiveWidth(letters)
      base == IF n <= 3 THEN SubSeq(levelText3(level), 1, n)
              ELSE SubSeq(levelText5(level), 1, n)
  IN IF upper THEN ToUpper(base)
     ELSE IF lower THEN ToLower(base)
     ELSE base

\* C6: the displayed level abbreviation is the first N characters of the
\* 3-letter form (N in 1..3) or of the 5-letter form (N in 4..5), N being
\* LevelLetters with values <= 0 replaced by 3 and values > 5 by 5,
\* upper-cased if upper is requested, lower-cased if only lower is
\* requested, unchanged otherwise; it is never empty.
LevelAbbreviation ==
  \A t \in Threads :
    pc[t] = "done" =>
      /\ ret[t].levelText =
           SpecifiedLevelText(ret[t].cfg0[1], ret[t].cfg0[2], ret[t].cfg0[3],
                              ent[t].Level)
      /\ ret[t].levelText # <<>>

(***************************************************************************)
(* Prefix composition: the user, rpc and prefix fields absent, text or not *)
(* text, next to an ordinary field.                                        *)
(***************************************************************************)
Bob == <<"b", "o", "b">>

SvcMethod == <<"S", "v", "c", ".", "M", "e", "t", "h", "o", "d">>

Api == <<"a", "p", "i">>

FortyTwo == IntVal(<<"4", "2">>)

Absent == Val("absent", <<>>, <<>>)

\* The map holding the pairs of cands whose value is not Absent.
MakeData(cands) ==
  [k \in {c[1] : c \in {c \in cands : c[2] # Absent}} |->
     (CHOOSE c \in cands : c[1] = k)[2]]

DataPrefix ==
  {MakeData({<<"user", u>>, <<"rpc", r>>, <<"prefix", p>>, <<"a", a>>}) :
     u \in {Absent, StrVal(<<>>), StrVal(Bob), FortyTwo},
     r \in {Absent, StrVal(SvcMethod), FortyTwo},
     p \in {Absent, StrVal(Api), FortyTwo},
     a \in {Absent, IntVal(<<"1">>)}}

EntriesPrefix ==
  {Entry("t1", "Info", <<"r", "e", "a", "d", "y">>, d, NilBuffer, lg) :
     d \in DataPrefix, lg \in {"nil", "tty"}}

InitPrefix == InitWith(New, 1)

NextPrefix ==
  \/ \E t \in Threads : Call(t, EntriesPrefix)
  \/ Steps

SpecPrefix == InitPrefix /\ [][NextPrefix]_vars

RECURSIVE Elems(_)
Elems(q) == IF q = <<>> THEN {} ELSE {Head(q)} \cup Elems(Tail(q))

\* The code read the value of the reserved field k into the prefix.
Consumed(data, k) == IsReserved(k) /\ IsString(data, k)

\* C7: every field other than _order is either printed in the field block
\* or was consumed into the prefix, never both and never neither.
PrintedOrConsumed ==
  \A t \in Threads :
    pc[t] = "done" =>
      \A k \in DOMAIN ent[t].Data \ {"_order"} :
        (k \in Elems(ret[t].keys)) # Consumed(ent[t].Data, k)

\* The prefix as specified, colours aside.
SpecifiedUserPart(data) ==
  IF IsString(data, "user") /\ data["user"].s # <<>>
  THEN data["user"].s \o <<"@">>
  ELSE <<>>

SpecifiedOriginPart(data) ==
  IF IsString(data, "rpc") /\ IsString(data, "prefix")
  THEN data["prefix"].s \o <<"/">> \o data["rpc"].s \o <<":">>
  ELSE IF IsString(data, "rpc") THEN data["rpc"].s \o <<":">>
  ELSE IF IsString(data, "prefix") THEN data["prefix"].s \o <<":">>
  ELSE <<>>

SpecifiedPrefix(data) ==
  LET p == SpecifiedUserPart(data) \o SpecifiedOriginPart(data)
  IN IF p # <<>> THEN p \o <<" ">> ELSE p

\* C8: the rendered prefix is user_part + origin_part + one space when
\* that is non-empty, user_part being "<user>@" only for a non-empty text
\* user and empty for an absent, non-text or empty one.
PrefixComposition ==
  \A t \in Threads :
    pc[t] = "done" =>
      StripColour(ret[t].prefix) = SpecifiedPrefix(ent[t].Data)

(***************************************************************************)
(* Layout: every combination of the message, paragraph and compaction      *)
(* flags; messages empty, short and of 100 characters; values of every     *)
(* kind, a long field name, order hints, a buffer already holding bytes.   *)
(***************************************************************************)
One == IntVal(<<"1">>)

Boom == <<"b", "o", "o", "m">>

DataLayout ==
  {NoData,
   MakeData({<<"a", One>>}),
   MakeData({<<"latency", Val("map", <<>>, <<>>)>>}),
   MakeData({<<LongName, One>>}),
   MakeData({<<"_order", StrVal(Bob)>>}),
   MakeData({<<"_order", HintVal(<<"z", "a">>)>>, <<"a", One>>,
             <<"z", StrVal(Api)>>}),
   MakeData({<<"b", Val("error", Boom, <<>>)>>}),
   MakeData({<<"b", Val("error", <<>>, <<>>)>>}),
   MakeData({<<"c", Val("func", <<>>, <<>>)>>}),
   MakeData({<<"m", HintVal(<<"a", "b">>)>>,
             <<"z", Val("stringer", Api, <<>>)>>}),
   MakeData({<<"user", StrVal(Bob)>>, <<"rpc", StrVal(SvcMethod)>>})}

EntriesLayout ==
  {Entry("t2", "Warn", msg, d, buf, lg) :
     msg \in Messages, d \in DataLayout,
     buf \in {UsedBuffer}, lg \in {"nil", "tty"}}

InitLayout ==
  \E ma \in BOOLEAN, cm \in BOOLEAN, pa \in BOOLEAN, pb \in BOOLEAN,
     cf \in BOOLEAN, cs \in BOOLEAN :
    InitWith([New EXCEPT !.MessageAfter = ma, !.CompactMessage = cm,
                         !.ParagraphAll = pa, !.ParagraphBlock = pb,
                         !.CompactFull = cf, !.CompactSimple = cs], 1)

NextLayout ==
  \/ \E t \in Threads : Call(t, EntriesLayout)
  \/ Steps

SpecLayout == InitLayout /\ [][NextLayout]_vars

\* C2: for every record, in both modes and under any configuration, Format
\* returns bytes with a nil error and never panics.
NeverPanics ==
  \A t \in Threads : pc[t] # "panicked" /\ ret[t].err = "nil"

StartsWith(q, p) == Len(q) >= Len(p) /\ SubSeq(q, 1, Len(p)) = p

EndsWith(q, p) ==
  Len(q) >= Len(p) /\ SubSeq(q, Len(q) - Len(p) + 1, Len(q)) = p

\* What Format appended to the buffer it was given.
Written(entry, out) ==
  SubSeq(out, Len(entry.Buffer.bytes) + 1, Len(out))

\* Time, level, prefix if any, and message, joined by single spaces.
SpecifiedHeader(timeText, level, prefix, message) ==
  timeText \o <<" ">> \o level \o <<" ">>
  \o (IF prefix # <<>> THEN prefix ELSE <<>>) \o message

\* C9: when the message is cuddled the header line is the time, the level
\* abbreviation, the prefix if any and the message, each separated from
\* the previous one by a single space, and the message is not emitted
\* again as a separate indented line.
CuddledHeader ==
  \A t \in Threads :
    pc[t] = "done" /\ ret[t].cuddleMessage =>
      /\ StartsWith(
           StripColour(Written(ent[t], ret[t].out)),
           SpecifiedHeader(
             IF f.isTerminal THEN TimeFormat(ent[t].Time)
             ELSE braketise(TimeFormat(ent[t].Time)),
             ret[t].levelText, StripColour(ret[t].prefix),
             ent[t].Message))
      /\ \A tail \in {<<"\n">>, <<"\n", "\n">>} :
           ~EndsWith(ret[t].out,
                     <<"\n", " ", " ">> \o ent[t].Message \o tail)

(***************************************************************************)
(* Field order: priorities registered by Order, order hints, up to         *)
(* MaxFields ordinary fields.                                              *)
(***************************************************************************)
SortNames == {"a", "b", "m", "z"}

Priorities == {-1, 1, 5}

OrderedNames == {"a", "b", "m"}

Hints == {Absent, HintVal(<<>>), HintVal(<<"z", "a">>)}

DataSort ==
  {MakeData({<<k, IF k \in S THEN One ELSE Absent>> : k \in SortNames}
            \cup {<<"_order", h>>}) :
     S \in {S \in SUBSET SortNames : Cardinality(S) <= MaxFields},
     h \in Hints}

EntriesSort ==
  {Entry("t1", "Debug", <<"r", "e", "a", "d", "y">>, d, NilBuffer, "nil") :
     d \in DataSort}

InitSort == \E o \in {NilMap, EmptyMap} : InitWith([New EXCEPT !.Ordering = o], 1)

NextSort ==
  \/ \E p \in Priorities, k \in OrderedNames : Order(p, k)
  \/ \E t \in Threads : Call(t, EntriesSort)
  \/ Steps

SpecSort == InitSort /\ [][NextSort]_vars

\* The priority map of the configuration a call ran under.
OrderingOf(r) == r.cfg0[10]

\* C4: with a non-empty priority map, every field with a higher priority
\* is rendered before every field with a lower one, a name absent from the
\* map having priority 0.
PriorityOrder ==
  \A t \in Threads :
    pc[t] = "done" /\ DOMAIN OrderingOf(ret[t]).m # {} =>
      \A i, j \in 1..Len(ret[t].keys) :
        Lookup(OrderingOf(ret[t]), ret[t].keys[i])
          > Lookup(OrderingOf(ret[t]), ret[t].keys[j]) => i < j

PriorityOrderWitness ==
  \E t \in Threads :
    /\ pc[t] = "done"
    /\ OrderingOf(ret[t]).m = [k \in {"a", "m"} |-> IF k = "m" THEN 5 ELSE -1]
    /\ ret[t].perm = <<"a", "b", "m">>
    /\ ret[t].keys = <<"m", "b", "a">>

\* The names of S in ascending lexicographic order.
Ascending(S) ==
  CHOOSE q \in Perms(S) :
    \A i, j \in 1..Len(q) : i < j => Compare(Chars(q[i]), Chars(q[j])) < 0

HintOf(data) == IF Has(data, "_order") THEN data["_order"].l ELSE <<>>

\* C5: with no priority map and a non-empty order hint, the hinted fields
\* come in ascending hint index and every other field after all of them,
\* the others in lexicographic order.
HintOrder ==
  \A t \in Threads :
    pc[t] = "done" /\ DOMAIN OrderingOf(ret[t]).m = {}
      /\ HintOf(ent[t].Data) # <<>> =>
        ret[t].keys =
          SelectSeq(HintOf(ent[t].Data), LAMBDA k : Has(ent[t].Data, k))
          \o Ascending(DOMAIN ent[t].Data
                       \ (Elems(HintOf(ent[t].Data)) \cup {"_order"}))

(***************************************************************************)
(* Repeated rendering: a finished call is remembered and compared with a   *)
(* later call on the same entry under the same configuration.              *)
(***************************************************************************)
DataDet ==
  {MakeData({<<"a", One>>, <<"b", StrVal(Api)>>, <<"c", One>>}),
   MakeData({<<"_order", HintVal(<<"z", "a">>)>>, <<"m", One>>,
             <<"z", One>>})}

EntriesDet ==
  {Entry("t1", "Error", <<"r", "e", "a", "d", "y">>, d, buf, lg) :
     d \in DataDet, buf \in {NilBuffer, UsedBuffer}, lg \in {"nil", "tty"}}

InitDet ==
  \E n \in {0, 3}, o \in {NilMap, MapSet(MapSet(NilMap, "a", 5), "b", 1)} :
    InitWith([New EXCEPT !.LevelLetters = n, !.Ordering = o], 1)

NextDet ==
  \/ \E t \in Threads : Call(t, EntriesDet)
  \/ \E t \in Threads : ReturnRemember(t)
  \/ Steps

SpecDet == InitDet /\ [][NextDet]_vars

\* C3: two calls with identical record inputs on a Formatter whose
\* configuration nobody set in between return the same bytes, whatever the
\* iteration order of the field map and whatever was rendered in between.
Determinism ==
  \A t \in Threads :
    pc[t] = "done" /\ prev.set /\ prev.entry = ent[t] =>
      ret[t].out = prev.out

DeterminismWitness ==
  \E t \in Threads :
    /\ pc[t] = "done"
    /\ prev.set
    /\ prev.entry = ent[t]
    /\ prev.perm # ret[t].perm
    /\ Len(ret[t].keys) >= 2
    /\ ret[t].out = prev.out

\* C10: no step of a Format call changes a configuration field of the
\* Formatter.
ConfigReadOnly == [][Config(f') = Config(f)]_vars

====
